---------------------------- MODULE Spec2Model ----------------------------
(***************************************************************************)
(* A model of the PlaySync room registry (app/room_manager_v2.py with      *)
(* app/room_storage.py), of the round timer engine (app/rps_timer.py, with *)
(* the resolution rule of app/rps_manager.py) and of the connection        *)
(* tracking of the socket handlers (app/socketio_events.py and             *)
(* app/socketio_events_v2.py).                                             *)
(***************************************************************************)
EXTENDS Integers, Sequences, FiniteSets, TLC

(***************************************************************************)
(* Bounds of the model.                                                    *)
(***************************************************************************)
NumRoomIds == 1
NumPlayers == 3
NumThreads == 2
MaxTime == 2
MaxRounds == 2
MaxGames == 2
MaxEnds == 2
NumCleanupRooms == 2
NumClients == 2
NumSids == 2

(***************************************************************************)
(* Program constants.                                                      *)
(***************************************************************************)
DefaultMaxPlayers == 2
DefaultTimeout == 1200
StorageTTL == 86400
ROUND_DURATION == 4
GRACE == 5

RoomIds == 1..NumRoomIds
Players == 1..NumPlayers
Threads == 1..NumThreads
NoThread == 0
NoRoom == 0
NoPlayer == 0
\* inactivity timeouts a caller passes to create_room: a short one and the default
Timeouts == {1, DefaultTimeout}

VARIABLES
  rooms,     \* RoomManager.rooms: room id -> Room
  storage,   \* the JSON file of room_storage: room id -> expires_at
  mlock,     \* holder of RoomManager._lock (NoThread when free)
  th,        \* per handler thread: the call it is in and the last result
  now,       \* the wall clock, in seconds
  io_in_lock,  \* a call of room_storage was made inside 'with self._lock'
  \* --- one RPSTimerManager and the room it was started for (rps_timer.py)
  troom,          \* the Room the engine holds (self.room)
  registered,     \* rps_timers holds the engine (socketio_events.py)
  running,        \* self.running
  stop_flag,      \* self.stop_flag
  current_round,  \* self.current_round
  scores,         \* self.scores: player id -> round sub-score
  choices,        \* self.choices: player id -> choice
  round_history,  \* self.round_history
  pc,             \* where the timer thread is in _timer_loop
  remaining,      \* the loop variable of the countdown
  emitted,        \* the tick and result broadcasts sent so far, in order
  last_valid,     \* per player, the last valid value received in the current countdown
  overwrote,      \* a value received in the current countdown replaced a different one
  early_stop,     \* stop() was called before the first countdown had elapsed
  \* --- connection tracking (socketio_events.py, socketio_events_v2.py)
  connected,          \* the connection ids the server holds open
  socket_to_player,   \* socket_to_player: connection id -> player id
  player_sockets,     \* player_sockets: player id -> connection id
  disconnect_timers,  \* disconnect_timers: connection id -> its cleanup timer
  socket_to_room,     \* socket_to_room (v2): connection id -> room id
  reconnect_tokens,   \* reconnect_tokens (v2): connection id -> room and player
  croom,              \* the room the connections join, as the registry holds it
  next_player,        \* the next fresh player id
  player_left,        \* the players a player_left broadcast was sent for
  grace,              \* per dropped connection: its player, the seconds since, and
                      \* whether it came back within the grace period
  \* --- one Room object and its game sessions (room_manager_v2.py)
  groom,
  \* --- the engine a second start request puts in the place of the first one
  succ,
  \* --- what the last request handler emitted: the response to the requesting
  \* connection and the events broadcast to the room
  sent,
  \* --- the position of the thread a second start() of the same engine creates, and
  \* the loop variable of that thread
  second

regVars == <<rooms, storage, mlock, th, now, io_in_lock>>

connVars == <<connected, socket_to_player, player_sockets, disconnect_timers,
              socket_to_room, reconnect_tokens, croom, next_player, player_left, grace>>

timerVars == <<troom, registered, running, stop_flag, current_round, scores, choices,
               round_history, pc, remaining, emitted, last_valid, overwrote, early_stop>>

(***************************************************************************)
(* Room (room_manager_v2.py)                                               *)
(***************************************************************************)
\* list.remove: the first occurrence of x goes
Remove(s, x) ==
  IF \E i \in 1..Len(s) : s[i] = x
  THEN LET i == CHOOSE k \in 1..Len(s) : s[k] = x /\ \A j \in 1..(k - 1) : s[j] # x
       IN SubSeq(s, 1, i - 1) \o SubSeq(s, i + 1, Len(s))
  ELSE s

\* Room.current_game when it is None; otherwise it is the position of the GameState
\* object among the ones the room has created (Room fields games, game_history)
NoGame == 0

PlayerSlot(pid) == [player_id |-> pid, is_ready |-> FALSE, score |-> 0]

NewRoom(rid, timeout, t) ==
  [room_id |-> rid,
   last_activity |-> t,
   max_players |-> DefaultMaxPlayers,
   inactivity_timeout |-> timeout,
   players |-> << >>,
   player_order |-> << >>,
   cumulative_scores |-> << >>,
   games |-> << >>,
   current_game |-> NoGame,
   game_history |-> << >>]

get_player_count(room) == Cardinality(DOMAIN room.players)

is_empty(room) == Cardinality(DOMAIN room.players) = 0

is_full(room) == Cardinality(DOMAIN room.players) >= room.max_players

\* is_expired that counts a room as expired when the timeout is reached
is_expired_reached(room, t) == (t - room.last_activity) >= room.inactivity_timeout

is_expired(room, t) == (t - room.last_activity) > room.inactivity_timeout

\* the outcome of Room.add_player: the room afterwards and the error raised
add_player_nocheck(room, pid, t) ==
  IF pid \in DOMAIN room.players
  THEN [room |-> room, err |-> "already in room"]
  ELSE [room |-> [room EXCEPT !.players = (pid :> PlayerSlot(pid)) @@ room.players,
                              !.player_order = Append(room.player_order, pid),
                              !.last_activity = t],
        err |-> "none"]

\* add_player without the test for a player who is already in the room
add_player_again(room, pid, t) ==
  IF Cardinality(DOMAIN room.players) >= room.max_players
  THEN [room |-> room, err |-> "Room is full"]
  ELSE [room |-> [room EXCEPT !.players = (pid :> PlayerSlot(pid)) @@ room.players,
                              !.player_order = Append(room.player_order, pid),
                              !.last_activity = t],
        err |-> "none"]

add_player(room, pid, t) ==
  IF pid \in DOMAIN room.players
  THEN [room |-> room, err |-> "already in room"]
  ELSE IF Cardinality(DOMAIN room.players) >= room.max_players
  THEN [room |-> room, err |-> "Room is full"]
  ELSE [room |-> [room EXCEPT !.players = (pid :> PlayerSlot(pid)) @@ room.players,
                              !.player_order = Append(room.player_order, pid),
                              !.last_activity = t],
        err |-> "none"]

remove_player(room, pid, t) ==
  IF pid \in DOMAIN room.players
  THEN [room EXCEPT !.players = [p \in DOMAIN room.players \ {pid} |-> room.players[p]],
                    !.player_order = Remove(room.player_order, pid),
                    !.last_activity = t]
  ELSE room

\* the ids of the players in join order, as get_players_list serializes them
get_players_list(room) ==
  SelectSeq(room.player_order, LAMBDA p : p \in DOMAIN room.players)

(***************************************************************************)
(* room_storage.py: the file holds room id -> expires_at                   *)
(***************************************************************************)
load_rooms(st, t) == [r \in {x \in DOMAIN st : st[x] > t} |-> st[r]]

storage_add_room(st, rid, t) == (rid :> (t + StorageTTL)) @@ load_rooms(st, t)

storage_get_room(st, rid, t) == rid \in DOMAIN load_rooms(st, t)

storage_delete_room(st, rid, t) ==
  IF rid \in DOMAIN load_rooms(st, t)
  THEN [r \in DOMAIN load_rooms(st, t) \ {rid} |-> st[r]]
  ELSE st

\* delete_room called for each of the ids in turn: the file is rewritten, without the
\* records past their expires_at, as soon as one of the ids has a record
storage_delete_rooms(st, ids, t) ==
  IF ids \cap DOMAIN load_rooms(st, t) = {}
  THEN st
  ELSE [r \in DOMAIN load_rooms(st, t) \ ids |-> st[r]]

(***************************************************************************)
(* RoomManager (room_manager_v2.py)                                        *)
(***************************************************************************)
\* threading.Lock: acquire succeeds only when nobody, the caller included, holds it
CanAcquire_reentrant(holder, t) == holder = NoThread \/ holder = t

CanAcquire(holder, t) == holder = NoThread

\* get_room that registers a room on every miss, durable record or not
get_room_locked_always(rs, st, rid, t) ==
  IF rid \in DOMAIN rs
  THEN [rooms |-> rs, found |-> TRUE]
  ELSE [rooms |-> (rid :> NewRoom(rid, DefaultTimeout, t)) @@ rs, found |-> TRUE]

\* the body of get_room inside the lock: the registry afterwards and whether a room is returned
get_room_locked(rs, st, rid, t) ==
  IF rid \in DOMAIN rs
  THEN [rooms |-> rs, found |-> TRUE]
  ELSE IF storage_get_room(st, rid, t)
  THEN [rooms |-> (rid :> NewRoom(rid, DefaultTimeout, t)) @@ rs, found |-> TRUE]
  ELSE [rooms |-> rs, found |-> FALSE]

IdleThread == [st |-> "idle", op |-> "none", rid |-> NoRoom, pid |-> NoPlayer,
               res |-> "none", view |-> << >>]

Idle(t) == th[t].st = "idle"

\* the call of thread t returns res (and, from join_room, the serialized player list)
Returned(t, op, rid, pid, res, view) ==
  th' = [th EXCEPT ![t] = [st |-> "idle", op |-> op, rid |-> rid, pid |-> pid,
                           res |-> res, view |-> view]]

\* thread t waits for RoomManager._lock, which another thread holds
Waits(t, op, rid, pid) ==
  /\ th' = [th EXCEPT ![t] = [st |-> "waiting", op |-> op, rid |-> rid, pid |-> pid,
                              res |-> "none", view |-> << >>]]
  /\ UNCHANGED <<rooms, storage, mlock, io_in_lock>>

\* thread t, holding RoomManager._lock, waits for it again inside self.get_room
Blocks(t, op, rid, pid) ==
  /\ th' = [th EXCEPT ![t] = [st |-> "blocked", op |-> op, rid |-> rid, pid |-> pid,
                              res |-> "none", view |-> << >>]]
  /\ mlock' = t
  /\ UNCHANGED <<rooms, storage, io_in_lock>>

create_room(t) ==
  /\ Idle(t)
  /\ IF CanAcquire(mlock, t)
     THEN \E rid \in RoomIds \ DOMAIN rooms, to \in Timeouts :
            /\ rooms' = (rid :> NewRoom(rid, to, now)) @@ rooms
            /\ storage' = storage_add_room(storage, rid, now)
            /\ io_in_lock' = TRUE
            /\ Returned(t, "none", NoRoom, NoPlayer, "none", << >>)
            /\ mlock' = mlock
     ELSE Waits(t, "create_room", NoRoom, NoPlayer)
  /\ UNCHANGED <<now, timerVars, connVars, groom, succ, sent, second>>

get_room(t) ==
  /\ Idle(t)
  /\ \E rid \in RoomIds :
       IF CanAcquire(mlock, t)
       THEN LET g == get_room_locked(rooms, storage, rid, now) IN
              /\ rooms' = g.rooms
              /\ Returned(t, "get_room", rid, NoPlayer,
                          IF g.found THEN "room" ELSE "None", << >>)
              /\ io_in_lock' = (io_in_lock \/ rid \notin DOMAIN rooms)
              /\ UNCHANGED <<storage, mlock>>
       ELSE Waits(t, "get_room", rid, NoPlayer)
  /\ UNCHANGED <<now, timerVars, connVars, groom, succ, sent, second>>

\* what join_room does once get_room has returned inside its critical section
join_room_body(rs, st, rid, pid, t) ==
  LET g == get_room_locked(rs, st, rid, t) IN
  IF ~g.found THEN [rooms |-> g.rooms, res |-> "Room not found", view |-> << >>]
  ELSE LET room == g.rooms[rid] IN
       IF is_full(room) THEN [rooms |-> g.rooms, res |-> "Room is full", view |-> << >>]
       ELSE IF is_expired(room, t)
       THEN [rooms |-> g.rooms, res |-> "Room has expired", view |-> << >>]
       ELSE LET a == add_player(room, pid, t) IN
            IF a.err # "none"
            THEN [rooms |-> g.rooms, res |-> "Internal server error", view |-> << >>]
            ELSE [rooms |-> [g.rooms EXCEPT ![rid] = a.room], res |-> "success",
                  view |-> get_players_list(a.room)]

join_room(t) ==
  /\ Idle(t)
  /\ \E rid \in RoomIds, pid \in Players :
       IF CanAcquire(mlock, t)                  \* with self._lock
       THEN IF CanAcquire(t, t)                 \* self.get_room: with self._lock
            THEN LET j == join_room_body(rooms, storage, rid, pid, now) IN
                   /\ rooms' = j.rooms
                   /\ Returned(t, "join_room", rid, pid, j.res, j.view)
                   /\ io_in_lock' = (io_in_lock \/ rid \notin DOMAIN rooms)
                   /\ UNCHANGED <<storage, mlock>>
            ELSE Blocks(t, "join_room", rid, pid)
       ELSE Waits(t, "join_room", rid, pid)
  /\ UNCHANGED <<now, timerVars, connVars, groom, succ, sent, second>>

\* what leave_room does once get_room has returned inside its critical section
leave_room_body(rs, st, rid, pid, t) ==
  LET g == get_room_locked(rs, st, rid, t) IN
  IF ~g.found THEN [rooms |-> g.rooms, storage |-> st, res |-> "False"]
  ELSE LET room == remove_player(g.rooms[rid], pid, t) IN
       IF is_empty(room)
       THEN [rooms |-> [r \in DOMAIN g.rooms \ {rid} |-> g.rooms[r]],
             storage |-> storage_delete_room(st, rid, t), res |-> "True"]
       ELSE [rooms |-> [g.rooms EXCEPT ![rid] = room], storage |-> st, res |-> "True"]

leave_room(t) ==
  /\ Idle(t)
  /\ \E rid \in RoomIds, pid \in Players :
       IF CanAcquire(mlock, t)                  \* with self._lock
       THEN IF CanAcquire(t, t)                 \* self.get_room: with self._lock
            THEN LET l == leave_room_body(rooms, storage, rid, pid, now) IN
                   /\ rooms' = l.rooms
                   /\ storage' = l.storage
                   /\ Returned(t, "leave_room", rid, pid, l.res, << >>)
                   /\ io_in_lock' = (io_in_lock \/ rid \notin DOMAIN rooms
                                               \/ rid \notin DOMAIN l.rooms)
                   /\ mlock' = mlock
            ELSE Blocks(t, "leave_room", rid, pid)
       ELSE Waits(t, "leave_room", rid, pid)
  /\ UNCHANGED <<now, timerVars, connVars, groom, succ, sent, second>>

\* the number cleanup_expired_rooms returns, as the thread records it
CountRes(n) == CASE n = 0 -> "0" [] n = 1 -> "1" [] OTHER -> "2"

cleanup_expired_rooms(t) ==
  /\ Idle(t)
  /\ IF CanAcquire(mlock, t)
     THEN LET expired == {r \in DOMAIN rooms : is_expired(rooms[r], now)} IN
            /\ rooms' = [r \in DOMAIN rooms \ expired |-> rooms[r]]
            /\ storage' = storage_delete_rooms(storage, expired, now)
            /\ io_in_lock' = (io_in_lock \/ expired # {})
            /\ Returned(t, "cleanup_expired_rooms", NoRoom, NoPlayer,
                        CountRes(Cardinality(expired)), << >>)
            /\ mlock' = mlock
     ELSE Waits(t, "cleanup_expired_rooms", NoRoom, NoPlayer)
  /\ UNCHANGED <<now, timerVars, connVars, groom, succ, sent, second>>

\* Room.add_player and Room.remove_player, called on a live room object
room_add_player ==
  /\ \E rid \in DOMAIN rooms, pid \in Players :
       rooms' = [rooms EXCEPT ![rid] = add_player(rooms[rid], pid, now).room]
  /\ UNCHANGED <<storage, mlock, th, now, io_in_lock, timerVars, connVars, groom, succ, sent, second>>

room_remove_player ==
  /\ \E rid \in DOMAIN rooms, pid \in Players :
       rooms' = [rooms EXCEPT ![rid] = remove_player(rooms[rid], pid, now)]
  /\ UNCHANGED <<storage, mlock, th, now, io_in_lock, timerVars, connVars, groom, succ, sent, second>>

Tick ==
  /\ now < MaxTime
  /\ now' = now + 1
  /\ UNCHANGED <<rooms, storage, mlock, th, io_in_lock, timerVars, connVars, groom, succ, sent, second>>

\* the registry of a fresh process: no live room; the storage file may hold records an
\* earlier process wrote, fresh or about to expire
InitReg ==
  /\ rooms = << >>
  /\ \E S \in SUBSET RoomIds : storage \in [S -> {1, StorageTTL}]
  /\ mlock = NoThread
  /\ th = [t \in Threads |-> IdleThread]
  /\ now = 0
  /\ io_in_lock = FALSE

\* the registry at rest, nothing stored
IdleReg ==
  /\ rooms = << >>
  /\ storage = << >>
  /\ mlock = NoThread
  /\ th = [t \in Threads |-> IdleThread]
  /\ now = 0
  /\ io_in_lock = FALSE

\* a registry with up to NumCleanupRooms rooms at time 0: a room create_room made has
\* its own timeout and a fresh record, a room get_room restored has the default timeout
\* and the record an earlier process wrote; the file may hold further records
CleanupIds == 1..NumCleanupRooms

InitCleanup ==
  /\ \E S \in SUBSET CleanupIds : \E to \in [S -> Timeouts] :
       rooms = [r \in S |-> NewRoom(r, to[r], 0)]
  /\ \E S \in SUBSET CleanupIds : storage \in [S -> {1, StorageTTL}]
  /\ \A r \in DOMAIN rooms :
       /\ r \in DOMAIN storage
       /\ rooms[r].inactivity_timeout # DefaultTimeout => storage[r] = StorageTTL
  /\ mlock = NoThread
  /\ th = [t \in Threads |-> IdleThread]
  /\ now = 0
  /\ io_in_lock = FALSE

NextCleanup ==
  \/ \E t \in Threads : cleanup_expired_rooms(t)
  \/ room_add_player
  \/ room_remove_player
  \/ Tick

NextReg ==
  \/ \E t \in Threads : create_room(t)
  \/ \E t \in Threads : get_room(t)
  \/ \E t \in Threads : join_room(t)
  \/ \E t \in Threads : leave_room(t)
  \/ \E t \in Threads : cleanup_expired_rooms(t)
  \/ room_add_player
  \/ room_remove_player
  \/ Tick

(***************************************************************************)
(* RPSTimerManager (rps_timer.py) and its handlers (socketio_events.py)    *)
(***************************************************************************)
VALID_CHOICES == {"rock", "paper", "scissors"}

None == "None"

\* BEATS[c]: the choice that c beats
BEATS_wrong(c) == CASE c = "rock" -> "scissors" [] c = "scissors" -> "rock" [] OTHER -> "paper"

BEATS(c) == CASE c = "rock" -> "scissors" [] c = "scissors" -> "paper" [] OTHER -> "rock"

\* the values a client sends as its choice
RawChoices == {"rock", "paper", "scissors", "Rock", "lizard"}

\* str.lower on the values of RawChoices
Lower(raw) == IF raw = "Rock" THEN "rock" ELSE raw

\* dict.get(key), None when the key is missing
Get(d, k) == IF k \in DOMAIN d THEN d[k] ELSE None

\* the outcome of submit_choice: the choices afterwards, the response, and whether
\* rps_player_ready was broadcast to the room
submit_choice_keepfirst(ch, pid, raw) ==
  IF Lower(raw) \notin VALID_CHOICES
  THEN [choices |-> ch, success |-> FALSE, error |-> "Invalid choice", ready |-> FALSE]
  ELSE [choices |-> IF pid \in DOMAIN ch THEN ch ELSE (pid :> Lower(raw)) @@ ch,
        success |-> TRUE, error |-> "none", ready |-> TRUE]

\* submit_choice that stores what it rejects
submit_choice_lenient(ch, pid, raw) ==
  [choices |-> (pid :> Lower(raw)) @@ ch,
   success |-> Lower(raw) \in VALID_CHOICES,
   error |-> IF Lower(raw) \in VALID_CHOICES THEN "none" ELSE "Invalid choice",
   ready |-> Lower(raw) \in VALID_CHOICES]

submit_choice(ch, pid, raw) ==
  IF Lower(raw) \notin VALID_CHOICES
  THEN [choices |-> ch, success |-> FALSE, error |-> "Invalid choice", ready |-> FALSE]
  ELSE [choices |-> (pid :> Lower(raw)) @@ ch, success |-> TRUE, error |-> "none",
        ready |-> TRUE]

\* the winner and result _finalize_round determines for the two choices
determine_winner(p1, p2, c1, c2) ==
  IF c1 = None /\ c2 = None THEN [winner |-> NoPlayer, result |-> "tie"]
  ELSE IF c1 = None THEN [winner |-> p2, result |-> "p2_win"]
  ELSE IF c2 = None THEN [winner |-> p1, result |-> "p1_win"]
  ELSE IF c1 = c2 THEN [winner |-> NoPlayer, result |-> "tie"]
  ELSE IF BEATS(c1) = c2 THEN [winner |-> p1, result |-> "p1_win"]
  ELSE [winner |-> p2, result |-> "p2_win"]

Inc(sc, p) == [sc EXCEPT ![p] = @ + 1]

\* _finalize_round inside timer_lock: "short" when fewer than two players are in the
\* room, "raise" when a score lookup raises KeyError (the scores as far as updated),
\* else the updated scores and the round record
finalize_round(order, ch, sc, round) ==
  IF Len(order) < 2 THEN [status |-> "short", scores |-> sc, record |-> << >>]
  ELSE LET p1 == order[1]
           p2 == order[2]
           c1 == Get(ch, p1)
           c2 == Get(ch, p2)
           w == determine_winner(p1, p2, c1, c2)
       IN IF w.winner # NoPlayer
          THEN IF w.winner \notin DOMAIN sc
               THEN [status |-> "raise", scores |-> sc, record |-> << >>]
               ELSE [status |-> "ok", scores |-> Inc(sc, w.winner),
                     record |-> [round |-> round, p1 |-> p1, p2 |-> p2, c1 |-> c1, c2 |-> c2,
                                 winner |-> w.winner, result |-> w.result,
                                 scores |-> Inc(sc, w.winner)]]
          ELSE IF p1 \notin DOMAIN sc
               THEN [status |-> "raise", scores |-> sc, record |-> << >>]
               ELSE IF p2 \notin DOMAIN sc
               THEN [status |-> "raise", scores |-> Inc(sc, p1), record |-> << >>]
               ELSE [status |-> "ok", scores |-> Inc(Inc(sc, p1), p2),
                     record |-> [round |-> round, p1 |-> p1, p2 |-> p2, c1 |-> c1, c2 |-> c2,
                                 winner |-> w.winner, result |-> w.result,
                                 scores |-> Inc(Inc(sc, p1), p2)]]

\* RPSRoundState (rps_manager.py): finalize fills "none" for the players without a
\* choice, _compute_winner names the winner by position
beats_map(c) == CASE c = "rock" -> "scissors" [] c = "scissors" -> "paper" [] OTHER -> "rock"

fill_none(ch, player_ids) ==
  [p \in DOMAIN ch \cup {player_ids[i] : i \in 1..Len(player_ids)} |->
     IF p \in DOMAIN ch THEN ch[p] ELSE "none"]

compute_winner(ch, player_ids) ==
  IF Len(player_ids) # 2 THEN None
  ELSE LET p1_choice == IF player_ids[1] \in DOMAIN ch THEN ch[player_ids[1]] ELSE "none"
           p2_choice == IF player_ids[2] \in DOMAIN ch THEN ch[player_ids[2]] ELSE "none"
       IN IF p1_choice = "none" /\ p2_choice = "none" THEN "draw"
          ELSE IF p1_choice = "none" THEN "player2"
          ELSE IF p2_choice = "none" THEN "player1"
          ELSE IF p1_choice = p2_choice THEN "draw"
          ELSE IF beats_map(p1_choice) = p2_choice THEN "player1"
          ELSE "player2"

\* the players whose connections reach the engine's room
Clients == 1..NumClients

NoChoices == [p \in Clients |-> None]

\* the round is open for choices: cleared, and _finalize_round has not run yet
Countdown == pc \in {"tick_check", "tick_emit", "post_check", "finalize"}

\* the countdown of the first round has not elapsed: the thread has not passed the
\* stop check that follows the last tick
FirstCountdown ==
  current_round = 1 /\ pc \in {"loop", "clear", "tick_check", "tick_emit", "post_check"}

\* stop() that forgets stop_flag.set()
rps_stop_noflag ==
  /\ registered
  /\ running' = FALSE
  /\ registered' = FALSE
  /\ early_stop' = FirstCountdown
  /\ UNCHANGED <<troom, stop_flag, current_round, scores, choices, round_history, pc,
                 remaining, emitted, last_valid, overwrote, regVars, connVars, groom, succ, sent, second>>

\* no second thread
NoSecond == [pc |-> "none", remaining |-> 0]

\* an RPSTimerManager object as a record: before it is constructed, and as
\* __init__ followed by start() leaves it
NoEngine ==
  [running |-> FALSE, stop_flag |-> FALSE, current_round |-> 1, scores |-> << >>,
   choices |-> << >>, round_history |-> << >>, pc |-> "none", remaining |-> 0,
   emitted |-> << >>]

StartedEngine(room) ==
  [NoEngine EXCEPT !.running = TRUE,
                   !.scores = [p \in DOMAIN room.players |-> 0],
                   !.pc = "loop"]

\* stop() that flips running instead of clearing it
stop_toggle(e) == [e EXCEPT !.stop_flag = TRUE, !.running = ~e.running]

\* RPSTimerManager.stop on an engine record: the event is set, then running is cleared
\* under timer_lock
stop(e) == [e EXCEPT !.stop_flag = TRUE, !.running = FALSE]

\* handle_rps_start: a member of a room with two players starts the engine; the model
\* follows one engine instance, from its construction on
rps_start ==
  /\ ~registered /\ pc = "none"
  /\ Cardinality(DOMAIN troom.players) >= 2
  /\ registered' = TRUE
  /\ scores' = [p \in DOMAIN troom.players |-> 0]
  /\ running' = TRUE
  /\ stop_flag' = FALSE
  /\ pc' = "loop"
  /\ UNCHANGED <<troom, current_round, choices, round_history, remaining, emitted,
                 last_valid, overwrote, early_stop,
                 regVars, connVars, groom, succ, sent, second>>

\* handle_rps_choice: the player of a connection submits a choice
rps_choice(pid, raw) ==
  /\ registered
  /\ choices' = submit_choice(choices, pid, raw).choices
  /\ IF Countdown /\ Lower(raw) \in VALID_CHOICES
     THEN /\ last_valid' = [last_valid EXCEPT ![pid] = Lower(raw)]
          /\ overwrote' = (overwrote \/ last_valid[pid] \notin {None, Lower(raw)})
     ELSE UNCHANGED <<last_valid, overwrote>>
  /\ UNCHANGED <<troom, registered, running, stop_flag, current_round, scores,
                 round_history, pc, remaining, emitted, early_stop, regVars, connVars, groom, succ, sent, second>>

\* handle_rps_choice with what it emits: the response to the sender and the
\* rps_player_ready broadcast of submit_choice
handle_rps_choice(pid, raw) ==
  /\ IF ~registered
     THEN /\ sent' = [response |-> "fail", broadcast |-> {}]
          /\ choices' = choices
     ELSE LET r == submit_choice(choices, pid, raw) IN
            /\ choices' = r.choices
            /\ sent' = [response |-> IF r.success THEN "ok" ELSE "fail",
                        broadcast |-> IF r.ready THEN {"rps_player_ready"} ELSE {}]
  /\ UNCHANGED <<troom, registered, running, stop_flag, current_round, scores,
                 round_history, pc, remaining, emitted, last_valid, overwrote, early_stop,
                 regVars, connVars, groom, succ, second>>

\* handle_rps_stop: stop() and removal from rps_timers
rps_stop ==
  /\ registered
  /\ stop_flag' = TRUE
  /\ running' = FALSE
  /\ registered' = FALSE
  /\ early_stop' = FirstCountdown
  /\ UNCHANGED <<troom, current_round, scores, choices, round_history, pc, remaining,
                 emitted, last_valid, overwrote, regVars, connVars, groom, succ, sent, second>>

\* a player leaves the engine's room, or a player joins it
troom_leave(pid) ==
  /\ pid \in DOMAIN troom.players
  /\ troom' = remove_player(troom, pid, 0)
  /\ UNCHANGED <<registered, running, stop_flag, current_round, scores, choices,
                 round_history, pc, remaining, emitted, last_valid, overwrote, early_stop,
                 regVars, connVars, groom, succ, sent, second>>

troom_join(pid) ==
  /\ pid \notin DOMAIN troom.players
  /\ ~is_full(troom)
  /\ troom' = add_player(troom, pid, 0).room
  /\ UNCHANGED <<registered, running, stop_flag, current_round, scores, choices,
                 round_history, pc, remaining, emitted, last_valid, overwrote, early_stop,
                 regVars, connVars, groom, succ, sent, second>>

\* _timer_loop, line by line
loop_top ==
  /\ pc = "loop"
  /\ pc' = IF stop_flag THEN "done" ELSE "clear"
  /\ UNCHANGED <<troom, registered, running, stop_flag, current_round, scores, choices,
                 round_history, remaining, emitted, last_valid, overwrote, early_stop,
                 regVars, connVars, groom, succ, sent, second>>

clear_choices ==
  /\ pc = "clear"
  /\ choices' = << >>
  /\ last_valid' = NoChoices
  /\ overwrote' = FALSE
  /\ remaining' = ROUND_DURATION
  /\ pc' = "tick_check"
  /\ UNCHANGED <<troom, registered, running, stop_flag, current_round, scores,
                 round_history, emitted, early_stop, regVars, connVars, groom, succ, sent, second>>

tick_check ==
  /\ pc = "tick_check"
  /\ pc' = IF stop_flag THEN "done" ELSE "tick_emit"
  /\ last_valid' = IF stop_flag THEN NoChoices ELSE last_valid
  /\ overwrote' = IF stop_flag THEN FALSE ELSE overwrote
  /\ UNCHANGED <<troom, registered, running, stop_flag, current_round, scores, choices,
                 round_history, remaining, emitted, early_stop, regVars, connVars, groom, succ, sent, second>>

\* a countdown over range(ROUND_DURATION, 1, -1): the tick for 1 is never sent
tick_emit_short ==
  /\ pc = "tick_emit"
  /\ emitted' = Append(emitted, [kind |-> "tick", round |-> current_round,
                                 remaining |-> remaining])
  /\ remaining' = remaining - 1
  /\ pc' = IF remaining > 2 THEN "tick_check" ELSE "post_check"
  /\ UNCHANGED <<troom, registered, running, stop_flag, current_round, scores, choices,
                 round_history, last_valid, overwrote, early_stop,
                 regVars, connVars, groom, succ, sent, second>>

\* the tick broadcast, then time.sleep(1) and the next iteration of the countdown
tick_emit ==
  /\ pc = "tick_emit"
  /\ emitted' = Append(emitted, [kind |-> "tick", round |-> current_round,
                                 remaining |-> remaining])
  /\ remaining' = remaining - 1
  /\ pc' = IF remaining > 1 THEN "tick_check" ELSE "post_check"
  /\ UNCHANGED <<troom, registered, running, stop_flag, current_round, scores, choices,
                 round_history, last_valid, overwrote, early_stop,
                 regVars, connVars, groom, succ, sent, second>>

\* the loop without the stop check after the countdown
post_check_nostop ==
  /\ pc = "post_check"
  /\ pc' = "finalize"
  /\ UNCHANGED <<troom, registered, running, stop_flag, current_round, scores, choices,
                 round_history, remaining, emitted, last_valid, overwrote, early_stop,
                 regVars, connVars, groom, succ, sent, second>>

post_check ==
  /\ pc = "post_check"
  /\ pc' = IF stop_flag THEN "done" ELSE "finalize"
  /\ last_valid' = IF stop_flag THEN NoChoices ELSE last_valid
  /\ overwrote' = IF stop_flag THEN FALSE ELSE overwrote
  /\ UNCHANGED <<troom, registered, running, stop_flag, current_round, scores, choices,
                 round_history, remaining, emitted, early_stop, regVars, connVars, groom, succ, sent, second>>

\* round_history.append of a record whose 'scores' is self.scores itself, not a copy:
\* every archived record then shows the scores of the latest round
append_record_shared(history, record) ==
  Append([i \in 1..Len(history) |-> [history[i] EXCEPT !.scores = record.scores]], record)

\* self.round_history.append(round_record): the record holds its own copies
append_record(history, record) == Append(history, record)

\* a _finalize_round that writes the scores of the round into the room as well
finalize_into_room ==
  /\ pc = "finalize"
  /\ LET f == finalize_round(troom.player_order, choices, scores, current_round) IN
       /\ scores' = f.scores
       /\ troom' = [troom EXCEPT !.cumulative_scores = f.scores]
       /\ round_history' = IF f.status = "ok" THEN Append(round_history, f.record)
                           ELSE round_history
       /\ stop_flag' = IF f.status = "raise" THEN TRUE ELSE stop_flag
       /\ pc' = CASE f.status = "ok" -> "emit_result"
                  [] f.status = "short" -> "reveal_check"
                  [] OTHER -> "done"
       /\ last_valid' = IF f.status = "ok" THEN last_valid ELSE NoChoices
       /\ overwrote' = IF f.status = "ok" THEN overwrote ELSE FALSE
  /\ UNCHANGED <<registered, running, current_round, choices, remaining, emitted,
                 early_stop, regVars, connVars, groom, succ, sent, second>>

\* _finalize_round up to the release of timer_lock; a KeyError ends the loop through
\* the except clause, which sets stop_flag
finalize ==
  /\ pc = "finalize"
  /\ LET f == finalize_round(troom.player_order, choices, scores, current_round) IN
       /\ scores' = f.scores
       /\ round_history' = IF f.status = "ok" THEN append_record(round_history, f.record)
                           ELSE round_history
       /\ stop_flag' = IF f.status = "raise" THEN TRUE ELSE stop_flag
       /\ pc' = CASE f.status = "ok" -> "emit_result"
                  [] f.status = "short" -> "reveal_check"
                  [] OTHER -> "done"
       /\ last_valid' = IF f.status = "ok" THEN last_valid ELSE NoChoices
       /\ overwrote' = IF f.status = "ok" THEN overwrote ELSE FALSE
  /\ UNCHANGED <<troom, registered, running, current_round, choices, remaining, emitted,
                 early_stop, regVars, connVars, groom, succ, sent, second>>

\* the rps_result broadcast, then time.sleep(REVEAL_DURATION)
emit_result ==
  /\ pc = "emit_result"
  /\ emitted' = Append(emitted, [kind |-> "result", round |-> current_round,
                                 remaining |-> 0])
  /\ pc' = "reveal_check"
  /\ last_valid' = NoChoices
  /\ overwrote' = FALSE
  /\ UNCHANGED <<troom, registered, running, stop_flag, current_round, scores, choices,
                 round_history, remaining, early_stop, regVars, connVars, groom, succ, sent, second>>

\* the end of the reveal hold without the stop check of line 128
reveal_check_nostop ==
  /\ pc = "reveal_check"
  /\ pc' = "incr"
  /\ UNCHANGED <<troom, registered, running, stop_flag, current_round, scores, choices,
                 round_history, remaining, emitted, last_valid, overwrote, early_stop,
                 regVars, connVars, groom, succ, sent, second>>

reveal_check ==
  /\ pc = "reveal_check"
  /\ pc' = IF stop_flag THEN "done" ELSE "incr"
  /\ UNCHANGED <<troom, registered, running, stop_flag, current_round, scores, choices,
                 round_history, remaining, emitted, last_valid, overwrote, early_stop,
                 regVars, connVars, groom, succ, sent, second>>

\* a thread that moves the round counter on by two
next_round_skip ==
  /\ pc = "incr"
  /\ current_round < MaxRounds
  /\ current_round' = current_round + 2
  /\ pc' = "loop"
  /\ UNCHANGED <<troom, registered, running, stop_flag, scores, choices, round_history,
                 remaining, emitted, last_valid, overwrote, early_stop,
                 regVars, connVars, groom, succ, sent, second>>

next_round ==
  /\ pc = "incr"
  /\ current_round < MaxRounds
  /\ current_round' = current_round + 1
  /\ pc' = "loop"
  /\ UNCHANGED <<troom, registered, running, stop_flag, scores, choices, round_history,
                 remaining, emitted, last_valid, overwrote, early_stop,
                 regVars, connVars, groom, succ, sent, second>>

\* a room two players have joined; no engine yet
InitTimer ==
  /\ troom = add_player(add_player(NewRoom(1, DefaultTimeout, 0), 1, 0).room, 2, 0).room
  /\ registered = FALSE
  /\ running = FALSE
  /\ stop_flag = FALSE
  /\ current_round = 1
  /\ scores = << >>
  /\ choices = << >>
  /\ round_history = << >>
  /\ pc = "none"
  /\ remaining = 0
  /\ emitted = << >>
  /\ last_valid = NoChoices
  /\ overwrote = FALSE
  /\ early_stop = FALSE
  /\ succ = NoEngine
  /\ second = NoSecond

NextTimer ==
  \/ rps_start
  \/ \E pid \in Clients, raw \in RawChoices : rps_choice(pid, raw)
  \/ rps_stop
  \/ \E pid \in Clients : troom_leave(pid)
  \/ \E pid \in Clients : troom_join(pid)
  \/ loop_top
  \/ clear_choices
  \/ tick_check
  \/ tick_emit
  \/ post_check
  \/ finalize
  \/ emit_result
  \/ reveal_check
  \/ next_round

\* the steps of the timer thread; the daemon thread is scheduled as long as it can run
timer_thread ==
  \/ loop_top
  \/ clear_choices
  \/ tick_check
  \/ tick_emit
  \/ post_check
  \/ finalize
  \/ emit_result
  \/ reveal_check
  \/ next_round

\* the engine with stop requests while the membership of its room changes
NextTimerStop ==
  \/ rps_start
  \/ \E pid \in Clients : rps_choice(pid, "rock")
  \/ rps_stop
  \/ \E pid \in Players : troom_leave(pid)
  \/ \E pid \in Players : troom_join(pid)
  \/ timer_thread

\* one step of _timer_loop on an engine record
timer_loop_step(e, order) ==
  CASE e.pc = "loop" -> [e EXCEPT !.pc = IF e.stop_flag THEN "done" ELSE "clear"]
    [] e.pc = "clear" ->
         [e EXCEPT !.choices = << >>, !.remaining = ROUND_DURATION, !.pc = "tick_check"]
    [] e.pc = "tick_check" -> [e EXCEPT !.pc = IF e.stop_flag THEN "done" ELSE "tick_emit"]
    [] e.pc = "tick_emit" ->
         [e EXCEPT !.emitted = Append(@, [kind |-> "tick", round |-> e.current_round,
                                          remaining |-> e.remaining]),
                   !.remaining = @ - 1,
                   !.pc = IF e.remaining > 1 THEN "tick_check" ELSE "post_check"]
    [] e.pc = "post_check" -> [e EXCEPT !.pc = IF e.stop_flag THEN "done" ELSE "finalize"]
    [] e.pc = "finalize" ->
         LET f == finalize_round(order, e.choices, e.scores, e.current_round) IN
         [e EXCEPT !.scores = f.scores,
                   !.round_history = IF f.status = "ok" THEN append_record(@, f.record) ELSE @,
                   !.stop_flag = IF f.status = "raise" THEN TRUE ELSE @,
                   !.pc = CASE f.status = "ok" -> "emit_result"
                            [] f.status = "short" -> "reveal_check"
                            [] OTHER -> "done"]
    [] e.pc = "emit_result" ->
         [e EXCEPT !.emitted = Append(@, [kind |-> "result", round |-> e.current_round,
                                          remaining |-> 0]),
                   !.pc = "reveal_check"]
    [] e.pc = "reveal_check" -> [e EXCEPT !.pc = IF e.stop_flag THEN "done" ELSE "incr"]
    [] e.pc = "incr" -> [e EXCEPT !.current_round = @ + 1, !.pc = "loop"]
    [] OTHER -> e

\* handle_rps_start while an engine is registered for the room: stop() on the old
\* engine, which is dropped from rps_timers, then a new engine is built and started
rps_restart ==
  /\ registered /\ succ.pc = "none"
  /\ Cardinality(DOMAIN troom.players) >= 2
  /\ stop_flag' = TRUE
  /\ running' = FALSE
  /\ registered' = FALSE
  /\ early_stop' = FirstCountdown
  /\ succ' = StartedEngine(troom)
  /\ UNCHANGED <<troom, current_round, scores, choices, round_history, pc, remaining,
                 emitted, last_valid, overwrote, regVars, connVars, groom, sent, second>>

\* the timer thread of the new engine
succ_thread ==
  /\ succ.pc \notin {"none", "done"}
  /\ succ.pc = "incr" => succ.current_round < MaxRounds
  /\ succ' = timer_loop_step(succ, troom.player_order)
  /\ UNCHANGED <<timerVars, regVars, connVars, groom, sent, second>>

\* handle_rps_stop once the new engine is the registered one
succ_stop ==
  /\ succ.running
  /\ succ' = [succ EXCEPT !.stop_flag = TRUE, !.running = FALSE]
  /\ UNCHANGED <<timerVars, regVars, connVars, groom, sent, second>>

\* the engine of the model as one record
ThisEngine ==
  [running |-> running, stop_flag |-> stop_flag, current_round |-> current_round,
   scores |-> scores, choices |-> choices, round_history |-> round_history,
   pc |-> pc, remaining |-> remaining, emitted |-> emitted]

\* stop() called on the engine object
engine_stop ==
  /\ pc # "none"
  /\ stop_flag' = stop(ThisEngine).stop_flag
  /\ running' = stop(ThisEngine).running
  /\ UNCHANGED <<troom, registered, current_round, scores, choices, round_history, pc,
                 remaining, emitted, last_valid, overwrote, early_stop,
                 regVars, connVars, groom, succ, sent, second>>

\* start() called again on the engine object: it returns at once while running is
\* set; otherwise it sets running, clears the event and starts a new thread
engine_start ==
  /\ pc # "none" /\ second.pc = "none"
  /\ ~running
  /\ running' = TRUE
  /\ stop_flag' = FALSE
  /\ second' = [pc |-> "loop", remaining |-> 0]
  /\ UNCHANGED <<troom, registered, current_round, scores, choices, round_history, pc,
                 remaining, emitted, last_valid, overwrote, early_stop,
                 regVars, connVars, groom, succ, sent>>

\* one step of the thread the second start() created, on the fields of the engine
second_thread ==
  /\ second.pc \notin {"none", "done"}
  /\ second.pc = "incr" => current_round < MaxRounds
  /\ LET e == timer_loop_step([ThisEngine EXCEPT !.pc = second.pc,
                                                 !.remaining = second.remaining],
                              troom.player_order) IN
       /\ stop_flag' = e.stop_flag
       /\ current_round' = e.current_round
       /\ scores' = e.scores
       /\ choices' = e.choices
       /\ round_history' = e.round_history
       /\ emitted' = e.emitted
       /\ second' = [pc |-> e.pc, remaining |-> e.remaining]
  /\ UNCHANGED <<troom, registered, running, pc, remaining, last_valid, overwrote,
                 early_stop, regVars, connVars, groom, succ, sent>>

\* one engine object whose start() and stop() are called in any order
NextReuse ==
  \/ rps_start
  \/ engine_stop
  \/ engine_start
  \/ second_thread
  \/ loop_top
  \/ clear_choices
  \/ tick_check
  \/ tick_emit
  \/ post_check
  \/ finalize
  \/ emit_result
  \/ reveal_check
  \/ next_round

\* start requests and the timer threads of the two engines, no choices submitted
NextRestart ==
  \/ rps_start
  \/ rps_restart
  \/ succ_stop
  \/ loop_top
  \/ clear_choices
  \/ tick_check
  \/ tick_emit
  \/ post_check
  \/ finalize
  \/ emit_result
  \/ reveal_check
  \/ next_round
  \/ succ_thread

\* the engine of a live room while the registry sweeps expired rooms: the room of the
\* engine is room 1 of the registry, created with a short or the default timeout
TimerRoomId == 1

InitEvict ==
  /\ \E to \in Timeouts :
       /\ troom = add_player(add_player(NewRoom(TimerRoomId, to, 0), 1, 0).room, 2, 0).room
       /\ rooms = [r \in {TimerRoomId} |-> troom]
  /\ storage = [r \in {TimerRoomId} |-> StorageTTL]
  /\ mlock = NoThread
  /\ th = [t \in Threads |-> IdleThread]
  /\ now = 0
  /\ io_in_lock = FALSE
  /\ registered = FALSE
  /\ running = FALSE
  /\ stop_flag = FALSE
  /\ current_round = 1
  /\ scores = << >>
  /\ choices = << >>
  /\ round_history = << >>
  /\ pc = "none"
  /\ remaining = 0
  /\ emitted = << >>
  /\ last_valid = NoChoices
  /\ overwrote = FALSE
  /\ early_stop = FALSE
  /\ succ = NoEngine
  /\ second = NoSecond

\* handle_rps_start looks the room up in the registry first
rps_start_live ==
  /\ TimerRoomId \in DOMAIN rooms
  /\ rps_start

NextEvict ==
  \/ rps_start_live
  \/ rps_stop
  \/ \E t \in Threads : cleanup_expired_rooms(t)
  \/ Tick
  \/ loop_top
  \/ clear_choices
  \/ tick_check
  \/ tick_emit
  \/ post_check
  \/ finalize
  \/ emit_result
  \/ reveal_check
  \/ next_round

\* the engine and the choice requests of the two clients, valid and not
NextChoice ==
  \/ rps_start
  \/ \E pid \in Clients, raw \in {"rock", "paper", "Rock", "lizard"} :
       handle_rps_choice(pid, raw)
  \/ loop_top
  \/ clear_choices
  \/ tick_check
  \/ tick_emit
  \/ post_check
  \/ finalize
  \/ emit_result
  \/ reveal_check
  \/ next_round

\* the engine while the membership of its room changes: a player leaves, a third
\* one takes the free slot; the two connected clients send "rock" or nothing
NextTimerRoom ==
  \/ rps_start
  \/ \E pid \in Clients : rps_choice(pid, "rock")
  \/ \E pid \in Players : troom_leave(pid)
  \/ \E pid \in Players : troom_join(pid)
  \/ loop_top
  \/ clear_choices
  \/ tick_check
  \/ tick_emit
  \/ post_check
  \/ finalize
  \/ emit_result
  \/ reveal_check
  \/ next_round

(***************************************************************************)
(* Connection tracking: socketio_events.py and socketio_events_v2.py       *)
(***************************************************************************)
Sids == 1..NumSids

\* dict.pop(key, None) and del d[key]
Drop(d, k) == [x \in DOMAIN d \ {k} |-> d[x]]

Put(d, k, v) == (k :> v) @@ d

\* room_manager.join_room and room_manager.leave_room as the handlers see them: a
\* join admits the player, the last leave deletes the room
rm_join_room(room, pid) == [room EXCEPT !.members = @ \cup {pid}]

rm_leave_room(room, pid) ==
  IF room.members \ {pid} = {} THEN [live |-> FALSE, members |-> {}]
  ELSE [room EXCEPT !.members = @ \ {pid}]

rm_is_full(room) == Cardinality(room.members) >= DefaultMaxPlayers

\* the seconds since the drop, counted up to the end of the grace period
Older(g) == [sid \in DOMAIN g |->
               [g[sid] EXCEPT !.since = IF @ <= GRACE THEN @ + 1 ELSE @]]

\* one second passes; a timer that is due runs first
conn_tick ==
  /\ \A sid \in DOMAIN disconnect_timers :
        disconnect_timers[sid].fired \/ disconnect_timers[sid].left > 0
  /\ disconnect_timers' = [sid \in DOMAIN disconnect_timers |->
        IF disconnect_timers[sid].fired THEN disconnect_timers[sid]
        ELSE [disconnect_timers[sid] EXCEPT !.left = @ - 1]]
  /\ grace' = Older(grace)
  /\ UNCHANGED <<connected, socket_to_player, player_sockets, socket_to_room,
                 reconnect_tokens, croom, next_player, player_left, regVars, timerVars, groom, succ, sent, second>>

\* handle_connect: a client connects, or comes back under the id it had
handle_connect(sid) ==
  /\ sid \notin connected
  /\ connected' = connected \cup {sid}
  /\ grace' = IF sid \in DOMAIN grace
              THEN IF grace[sid].since < GRACE
                   THEN [grace EXCEPT ![sid].back = TRUE]
                   ELSE Drop(grace, sid)
              ELSE grace
  /\ UNCHANGED <<socket_to_player, player_sockets, disconnect_timers, socket_to_room,
                 reconnect_tokens, croom, next_player, player_left, regVars, timerVars, groom, succ, sent, second>>

\* socketio_events.py handle_join_room: no check that the connection has a player
handle_join_room(sid) ==
  /\ sid \in connected
  /\ next_player <= NumPlayers
  /\ croom.live /\ ~rm_is_full(croom)
  /\ croom' = rm_join_room(croom, next_player)
  /\ socket_to_player' = Put(socket_to_player, sid, next_player)
  /\ player_sockets' = Put(player_sockets, next_player, sid)
  /\ next_player' = next_player + 1
  /\ grace' = Drop(grace, sid)
  /\ UNCHANGED <<connected, disconnect_timers, socket_to_room, reconnect_tokens,
                 player_left, regVars, timerVars, groom, succ, sent, second>>

\* socketio_events.py handle_leave_room, asked by the connection of the player
handle_leave_room(sid) ==
  /\ sid \in connected
  /\ sid \in DOMAIN socket_to_player
  /\ LET player_id == socket_to_player[sid] IN
       /\ croom' = rm_leave_room(croom, player_id)
       /\ socket_to_player' = Drop(socket_to_player, sid)
       /\ player_sockets' = Drop(player_sockets, player_id)
       /\ player_left' = IF croom'.live THEN player_left \cup {player_id} ELSE player_left
  /\ grace' = Drop(grace, sid)
  /\ UNCHANGED <<connected, disconnect_timers, socket_to_room, reconnect_tokens,
                 next_player, regVars, timerVars, groom, succ, sent, second>>

\* socketio_events.py handle_disconnect: the pending timer of the connection is
\* cancelled and a new one is started
handle_disconnect(sid) ==
  /\ sid \in connected
  /\ connected' = connected \ {sid}
  /\ disconnect_timers' = Put(Drop(disconnect_timers, sid), sid,
                              [left |-> GRACE, fired |-> FALSE])
  /\ grace' = IF sid \in DOMAIN socket_to_player
              THEN Put(Drop(grace, sid), sid,
                       [player |-> socket_to_player[sid], since |-> 0, back |-> FALSE])
              ELSE Drop(grace, sid)
  /\ UNCHANGED <<socket_to_player, player_sockets, socket_to_room, reconnect_tokens,
                 croom, next_player, player_left, regVars, timerVars, groom, succ, sent, second>>

\* delayed_cleanup, run by the timer.  socketio.server.sids is not part of the
\* source: the lookup tells whether the connection is open, or raises, and a raise is
\* swallowed by the except clause
delayed_cleanup(sid, lookup) ==
  /\ sid \in DOMAIN disconnect_timers
  /\ ~disconnect_timers[sid].fired /\ disconnect_timers[sid].left = 0
  /\ lookup = "found" => sid \in connected
  /\ lookup = "missing" => sid \notin connected
  /\ IF lookup = "found"
     THEN /\ disconnect_timers' = [disconnect_timers EXCEPT ![sid].fired = TRUE]
          /\ UNCHANGED <<socket_to_player, player_sockets>>
     ELSE /\ socket_to_player' = Drop(socket_to_player, sid)
          /\ player_sockets' = IF sid \in DOMAIN socket_to_player
                               THEN Drop(player_sockets, socket_to_player[sid])
                               ELSE player_sockets
          /\ disconnect_timers' = Drop(disconnect_timers, sid)
  /\ UNCHANGED <<connected, socket_to_room, reconnect_tokens, croom, next_player,
                 player_left, grace, regVars, timerVars, groom, succ, sent, second>>

\* socketio_events_v2.py handle_join_room: a connection that has a player is refused
handle_join_room_v2(sid) ==
  /\ sid \in connected
  /\ sid \notin DOMAIN socket_to_player
  /\ next_player <= NumPlayers
  /\ croom.live /\ ~rm_is_full(croom)
  /\ croom' = rm_join_room(croom, next_player)
  /\ socket_to_player' = Put(socket_to_player, sid, next_player)
  /\ socket_to_room' = Put(socket_to_room, sid, 1)
  /\ player_sockets' = Put(player_sockets, next_player, sid)
  /\ next_player' = next_player + 1
  /\ grace' = Drop(grace, sid)
  /\ UNCHANGED <<connected, disconnect_timers, reconnect_tokens, player_left, regVars,
                 timerVars, groom, succ, sent, second>>

\* socketio_events_v2.py handle_leave_room
handle_leave_room_v2(sid) ==
  /\ sid \in connected
  /\ sid \in DOMAIN socket_to_player /\ sid \in DOMAIN socket_to_room
  /\ LET player_id == socket_to_player[sid] IN
       /\ croom' = rm_leave_room(croom, player_id)
       /\ socket_to_player' = Drop(socket_to_player, sid)
       /\ socket_to_room' = Drop(socket_to_room, sid)
       /\ player_sockets' = Drop(player_sockets, player_id)
       /\ player_left' = IF croom'.live THEN player_left \cup {player_id} ELSE player_left
  /\ grace' = Drop(grace, sid)
  /\ UNCHANGED <<connected, disconnect_timers, reconnect_tokens, next_player, regVars,
                 timerVars, groom, succ, sent, second>>

\* socketio_events_v2.py handle_disconnect: the mappings go at once and player_left is
\* broadcast while the room exists; the player stays a member of the room
handle_disconnect_v2(sid) ==
  /\ sid \in connected
  /\ connected' = connected \ {sid}
  /\ socket_to_player' = Drop(socket_to_player, sid)
  /\ socket_to_room' = Drop(socket_to_room, sid)
  /\ IF sid \in DOMAIN socket_to_player
     THEN LET player_id == socket_to_player[sid] IN
            /\ reconnect_tokens' = Put(Drop(reconnect_tokens, sid), sid,
                 [room_id |-> Get(socket_to_room, sid), player_id |-> player_id])
            /\ player_sockets' = Drop(player_sockets, player_id)
            /\ player_left' = IF sid \in DOMAIN socket_to_room /\ croom.live
                              THEN player_left \cup {player_id} ELSE player_left
            /\ grace' = Put(Drop(grace, sid), sid,
                            [player |-> player_id, since |-> 0, back |-> FALSE])
     ELSE /\ UNCHANGED <<reconnect_tokens, player_sockets, player_left>>
          /\ grace' = Drop(grace, sid)
  /\ UNCHANGED <<disconnect_timers, croom, next_player, regVars, timerVars, groom, succ, sent, second>>

\* no connection yet, and a room that was created and is still empty
InitConn ==
  /\ connected = {}
  /\ socket_to_player = << >>
  /\ player_sockets = << >>
  /\ disconnect_timers = << >>
  /\ socket_to_room = << >>
  /\ reconnect_tokens = << >>
  /\ croom = [live |-> TRUE, members |-> {}]
  /\ next_player = 1
  /\ player_left = {}
  /\ grace = << >>

NextConn ==
  \/ \E sid \in Sids : handle_connect(sid)
  \/ \E sid \in Sids : handle_join_room(sid)
  \/ \E sid \in Sids : handle_leave_room(sid)
  \/ \E sid \in Sids : handle_disconnect(sid)
  \/ \E sid \in Sids, lookup \in {"found", "missing", "raises"} : delayed_cleanup(sid, lookup)
  \/ conn_tick

NextConnV2 ==
  \/ \E sid \in Sids : handle_connect(sid)
  \/ \E sid \in Sids : handle_join_room_v2(sid)
  \/ \E sid \in Sids : handle_leave_room_v2(sid)
  \/ \E sid \in Sids : handle_disconnect_v2(sid)
  \/ conn_tick

(***************************************************************************)
(* Room.start_game and Room.end_game (room_manager_v2.py)                  *)
(***************************************************************************)
GameTypes == {"rps", "tictactoe"}

\* GameState.results before the game has ended, and an empty results dict
NoResults == [given |-> FALSE, winner |-> NoPlayer, result |-> "none"]

\* the results a caller passes to end_game: nothing, or a dict with a winner (NoPlayer
\* when the key is missing or None) and a result
EndResults ==
  {NoResults} \cup
  {[given |-> TRUE, winner |-> w, result |-> r] :
     w \in Clients \cup {NoPlayer}, r \in {"draw", "win"}}

GameState(game_type) == [game_type |-> game_type, player_scores |-> << >>, results |-> NoResults]

\* start_game that inherits the cumulative scores whatever reset_scores says
start_game_inherit(room, game_type, reset_scores, t) ==
  LET old_scores == room.cumulative_scores
      game == [GameState(game_type) EXCEPT !.player_scores =
                 [p \in DOMAIN room.players |->
                    IF p \in DOMAIN old_scores THEN old_scores[p] ELSE 0]]
  IN [room EXCEPT !.games = Append(@, game),
                  !.current_game = Len(room.games) + 1,
                  !.players = [p \in DOMAIN room.players |->
                                 [room.players[p] EXCEPT !.is_ready = FALSE]],
                  !.last_activity = t]

start_game(room, game_type, reset_scores, t) ==
  LET old_scores == room.cumulative_scores
      game == [GameState(game_type) EXCEPT !.player_scores =
                 [p \in DOMAIN room.players |->
                    IF reset_scores THEN 0
                    ELSE IF p \in DOMAIN old_scores THEN old_scores[p] ELSE 0]]
  IN [room EXCEPT !.games = Append(@, game),
                  !.current_game = Len(room.games) + 1,
                  !.players = [p \in DOMAIN room.players |->
                                 [room.players[p] EXCEPT !.is_ready = FALSE]],
                  !.last_activity = t]

\* the scores of the session after the results are applied
apply_results(player_scores, results) ==
  IF results.winner # NoPlayer
  THEN IF results.winner \in DOMAIN player_scores
       THEN Inc(player_scores, results.winner) ELSE player_scores
  ELSE IF results.result = "draw"
  THEN [p \in DOMAIN player_scores |-> player_scores[p] + 1]
  ELSE player_scores

\* end_game: the GameState object stays the current game and is appended to the history
end_game(room, results, t) ==
  IF room.current_game # NoGame /\ results.given
  THEN LET sc == apply_results(room.games[room.current_game].player_scores, results)
       IN [room EXCEPT !.games[room.current_game].player_scores = sc,
                       !.games[room.current_game].results = results,
                       !.cumulative_scores = sc,
                       !.game_history = Append(@, room.current_game),
                       !.last_activity = t]
  ELSE [room EXCEPT !.last_activity = t]

groom_add_player(pid) ==
  /\ groom' = add_player(groom, pid, now).room
  /\ UNCHANGED <<regVars, timerVars, connVars, succ, sent, second>>

groom_remove_player(pid) ==
  /\ groom' = remove_player(groom, pid, now)
  /\ UNCHANGED <<regVars, timerVars, connVars, succ, sent, second>>

groom_start_game(game_type, reset_scores) ==
  /\ Len(groom.games) < MaxGames
  /\ groom' = start_game(groom, game_type, reset_scores, now)
  /\ UNCHANGED <<regVars, timerVars, connVars, succ, sent, second>>

groom_end_game(results) ==
  /\ Len(groom.game_history) < MaxEnds
  /\ groom' = end_game(groom, results, now)
  /\ UNCHANGED <<regVars, timerVars, connVars, succ, sent, second>>

\* the emissions of a handler: nothing yet
NoEmit == [response |-> "none", broadcast |-> {}]

\* the game types a client names in start_game_request: the known ones and another
RequestedTypes == GameTypes \cup {"chess"}

\* socketio_events.py handle_start_game for the room, asked by player pid
handle_start_game(pid, game_type, reset_scores) ==
  /\ Len(groom.games) < MaxGames
  /\ IF \/ pid \notin DOMAIN groom.players
        \/ Cardinality(DOMAIN groom.players) < 2
        \/ game_type \notin GameTypes
     THEN /\ sent' = [response |-> "fail", broadcast |-> {}]
          /\ groom' = groom
     ELSE /\ groom' = start_game(groom, game_type, reset_scores, now)
          /\ sent' = [response |-> "ok", broadcast |-> {"game_started"}]
  /\ UNCHANGED <<regVars, timerVars, connVars, succ, second>>

\* socketio_events.py handle_game_move: valid is what process_move answers, complete
\* what is_game_complete answers and results what get_results returns
handle_game_move(pid, valid, complete, results) ==
  /\ Len(groom.game_history) < MaxEnds
  /\ IF groom.current_game = NoGame
     THEN /\ sent' = [response |-> "fail", broadcast |-> {}]
          /\ groom' = groom
     ELSE /\ sent' = [response |-> IF valid THEN "ok" ELSE "fail",
                      broadcast |-> {"move_made"} \cup
                                    (IF complete THEN {"game_ended"} ELSE {})]
          /\ groom' = IF complete
                      THEN [end_game(groom, results, now) EXCEPT !.current_game = NoGame]
                      ELSE groom
  /\ UNCHANGED <<regVars, timerVars, connVars, succ, second>>

InitRoom ==
  /\ groom = NewRoom(1, DefaultTimeout, 0)
  /\ sent = NoEmit

\* the requests of the clients of one room about its games
NextMove ==
  \/ \E pid \in Clients : groom_add_player(pid)
  \/ \E pid \in Clients, game_type \in RequestedTypes :
       handle_start_game(pid, game_type, FALSE)
  \/ \E pid \in Clients, valid \in BOOLEAN, complete \in BOOLEAN, results \in EndResults :
       handle_game_move(pid, valid, complete, results)

NextRoom ==
  \/ \E pid \in Clients : groom_add_player(pid)
  \/ \E pid \in Clients : groom_remove_player(pid)
  \/ \E game_type \in GameTypes, reset_scores \in BOOLEAN :
       groom_start_game(game_type, reset_scores)
  \/ \E results \in EndResults : groom_end_game(results)
  \/ Tick

vars == <<regVars, timerVars, connVars, groom, succ, sent, second>>

Init == InitReg /\ InitTimer /\ InitConn /\ InitRoom

Next == NextReg

Spec == Init /\ [][Next]_vars

InitEngine == IdleReg /\ InitTimer /\ InitConn /\ InitRoom

SpecTimer == InitEngine /\ [][NextTimer]_vars

SpecConn == InitEngine /\ [][NextConn]_vars

SpecConnV2 == InitEngine /\ [][NextConnV2]_vars

SpecRoom == InitEngine /\ [][NextRoom]_vars

InitSweep == InitCleanup /\ InitTimer /\ InitConn /\ InitRoom

SpecCleanup == InitSweep /\ [][NextCleanup]_vars

SpecTimerRoom == InitEngine /\ [][NextTimerRoom]_vars

SpecRestart == InitEngine /\ [][NextRestart]_vars

InitEviction == InitEvict /\ InitConn /\ InitRoom

SpecEvict == InitEviction /\ [][NextEvict]_vars

SpecMove == InitEngine /\ [][NextMove]_vars

SpecChoice == InitEngine /\ [][NextChoice]_vars

SpecReuse == InitEngine /\ [][NextReuse]_vars

SpecTimerStop == InitEngine /\ [][NextTimerStop]_vars /\ WF_vars(timer_thread)

(***************************************************************************)
(* Claims about the registry                                               *)
(***************************************************************************)
InFlight(t, op) == th[t].op = op /\ th[t].st \in {"waiting", "blocked"}

\* a call that can never return: it waits for a lock whose holder waits for it as well
Stuck(t) ==
  \/ th[t].st = "blocked"
  \/ th[t].st = "waiting" /\ mlock # NoThread /\ th[mlock].st = "blocked"

\* thread t calls op(rid, pid) in this step and finds RoomManager._lock free
Accepted(t, op, rid, pid) ==
  /\ th[t].st = "idle"
  /\ mlock = NoThread
  /\ th'[t] # th[t]
  /\ th'[t].op = op /\ th'[t].rid = rid /\ th'[t].pid = pid

\* C1: under every interleaving of join_room calls (and of the Room operations they
\* rest on) a room never holds more players than its max_players.
C1_CapacityNeverExceeded ==
  \A rid \in DOMAIN rooms :
    Cardinality(DOMAIN rooms[rid].players) <= rooms[rid].max_players

\* a room at capacity, reached by admissions, with two join_room calls for further
\* players in flight on it
C1_Witness ==
  \E rid \in DOMAIN rooms : \E t, u \in Threads :
    /\ t # u
    /\ Cardinality(DOMAIN rooms[rid].players) = rooms[rid].max_players
    /\ Len(rooms[rid].player_order) = rooms[rid].max_players
    /\ InFlight(t, "join_room") /\ InFlight(u, "join_room")
    /\ th[t].rid = rid /\ th[u].rid = rid
    /\ th[t].pid \notin DOMAIN rooms[rid].players

\* two join_room calls with distinct new player ids on a live room with one free slot
Racing(t, u, rid) ==
  /\ t # u
  /\ InFlight(t, "join_room") /\ InFlight(u, "join_room")
  /\ th[t].rid = rid /\ th[u].rid = rid
  /\ th[t].pid # th[u].pid
  /\ rid \in DOMAIN rooms
  /\ ~is_expired(rooms[rid], now)
  /\ Cardinality(DOMAIN rooms[rid].players) = rooms[rid].max_players - 1
  /\ {th[t].pid, th[u].pid} \cap DOMAIN rooms[rid].players = {}

\* C2: of two join_room calls racing for the last free slot exactly one returns success
\* and the other returns 'Room is full'; so at no time are both calls unable to return,
\* and a call that returned 'Room is full' left the room at capacity.
C2_OneWinsLastSlot ==
  /\ \A t, u \in Threads : \A rid \in RoomIds :
       Racing(t, u, rid) => ~(Stuck(t) /\ Stuck(u))
  /\ \A t \in Threads :
       (th[t].st = "idle" /\ th[t].op = "join_room" /\ th[t].res = "Room is full"
          /\ th[t].rid \in DOMAIN rooms)
       => is_full(rooms[th[t].rid])

\* C3: a join_room call on a live, non-expired, non-full room with a player id that is
\* not a member returns success, adds the player, appends the id to player_order (the
\* returned view lists the players in join order) and refreshes last_activity.
C3_JoinAdmits ==
  [][\A t \in Threads : \A rid \in DOMAIN rooms : \A pid \in Players :
       ( /\ Accepted(t, "join_room", rid, pid)
         /\ ~is_full(rooms[rid])
         /\ ~is_expired(rooms[rid], now)
         /\ pid \notin DOMAIN rooms[rid].players )
       => ( /\ th'[t].st = "idle"
            /\ th'[t].res = "success"
            /\ rid \in DOMAIN rooms'
            /\ pid \in DOMAIN rooms'[rid].players
            /\ rooms'[rid].player_order = Append(rooms[rid].player_order, pid)
            /\ th'[t].view = rooms'[rid].player_order
            /\ rooms'[rid].last_activity = now )]_vars

\* C4: once leave_room has removed the last player of a room, the room is neither in the
\* live set nor in durable storage and get_room on its id finds nothing.
C4_LastLeaveDeletes ==
  [][\A t \in Threads : \A rid \in DOMAIN rooms : \A pid \in Players :
       ( /\ Accepted(t, "leave_room", rid, pid)
         /\ DOMAIN rooms[rid].players = {pid} )
       => ( /\ th'[t].st = "idle"
            /\ th'[t].res = "True"
            /\ rid \notin DOMAIN rooms'
            /\ ~storage_get_room(storage', rid, now)
            /\ ~get_room_locked(rooms', storage', rid, now).found )]_vars

\* the elements of a sequence
Range(s) == {s[i] : i \in 1..Len(s)}

\* C12: in every live room player_order has no duplicates and holds exactly the keys
\* of players
C12_OrderMatchesPlayers ==
  \A rid \in DOMAIN rooms :
    /\ Range(rooms[rid].player_order) = DOMAIN rooms[rid].players
    /\ Len(rooms[rid].player_order) = Cardinality(DOMAIN rooms[rid].players)

\* a room that holds player 3 and then player 1, in that join order
C12_Witness ==
  \E rid \in DOMAIN rooms : rooms[rid].player_order = <<3, 1>>

\* C13: join_room with the id of a player who is already in the room returns a
\* failure outcome and leaves the players and player_order of the room as they were
C13_DuplicateJoinFails ==
  [][\A t \in Threads : \A rid \in DOMAIN rooms : \A pid \in Players :
       ( /\ Accepted(t, "join_room", rid, pid)
         /\ pid \in DOMAIN rooms[rid].players )
       => ( /\ th'[t].st = "idle"
            /\ th'[t].res \notin {"none", "success"}
            /\ rid \in DOMAIN rooms'
            /\ rooms'[rid].players = rooms[rid].players
            /\ rooms'[rid].player_order = rooms[rid].player_order )]_vars

\* a durable record of rid exists at time t
Durable(rid, t) == rid \in DOMAIN storage /\ storage[rid] > t

\* join_room(rid, ...) has to fail: no such room, or the room is full or expired
MustFail(rid) ==
  IF rid \in DOMAIN rooms
  THEN is_full(rooms[rid]) \/ is_expired(rooms[rid], now)
  ELSE ~Durable(rid, now)

C15_ExpiredJoinFails ==
  \A rid \in DOMAIN rooms : \A pid \in Players :
    (now - rooms[rid].last_activity > rooms[rid].inactivity_timeout)
    => /\ join_room_body(rooms, storage, rid, pid, now).res = "Room has expired"
       /\ join_room_body(rooms, storage, rid, pid, now).rooms = rooms

\* C16: create_room registers a room under an id that was not live and had no durable
\* record, and writes its durable record; no call fails
C16_CreateUsesFreshId ==
  [][\A t \in Threads :
       ( create_room(t) /\ mlock = NoThread )
       => ( /\ th'[t].st = "idle"
            /\ \E rid \in RoomIds :
                 /\ rid \notin DOMAIN rooms
                 /\ ~Durable(rid, now)
                 /\ DOMAIN rooms' = DOMAIN rooms \cup {rid}
                 /\ rooms'[rid].players = << >>
                 /\ rid \in DOMAIN storage' /\ storage'[rid] > now )]_vars

\* C17: get_room returns the room when the id is live and changes nothing; on a miss
\* with a durable record it registers and returns a room with no players, no scores
\* and no game; with neither it returns None and changes nothing; it always returns
C17_GetRoomOutcomes ==
  [][\A t \in Threads : \A rid \in RoomIds :
       Accepted(t, "get_room", rid, NoPlayer)
       => /\ th'[t].st = "idle"
          /\ storage' = storage
          /\ IF rid \in DOMAIN rooms
             THEN th'[t].res = "room" /\ rooms' = rooms
             ELSE IF Durable(rid, now)
             THEN /\ th'[t].res = "room"
                  /\ DOMAIN rooms' = DOMAIN rooms \cup {rid}
                  /\ \A r \in DOMAIN rooms : rooms'[r] = rooms[r]
                  /\ rooms'[rid].players = << >>
                  /\ rooms'[rid].player_order = << >>
                  /\ rooms'[rid].cumulative_scores = << >>
                  /\ rooms'[rid].current_game = NoGame
                  /\ rooms'[rid].game_history = << >>
             ELSE th'[t].res = "None" /\ rooms' = rooms]_vars

\* get_room has returned a room it registered from the record an earlier process left
C17_Witness ==
  \E t \in Threads :
    /\ th[t].st = "idle" /\ th[t].op = "get_room" /\ th[t].res = "room"
    /\ th[t].rid \in DOMAIN rooms
    /\ th[t].rid \in DOMAIN storage /\ storage[th[t].rid] = 1
    /\ rooms[th[t].rid].players = << >>

\* C23: cleanup_expired_rooms removes from the live set and from durable storage
\* exactly the rooms whose time since the last activity exceeds their own inactivity
\* timeout, and leaves every other live room and every other durable record as it was
C23_CleanupRemovesExactlyExpired ==
  [][\A t \in Threads :
       ( cleanup_expired_rooms(t) /\ mlock = NoThread )
       => LET expired == {r \in DOMAIN rooms :
                            now - rooms[r].last_activity > rooms[r].inactivity_timeout}
          IN /\ th'[t].st = "idle"
             /\ DOMAIN rooms' = DOMAIN rooms \ expired
             /\ \A r \in DOMAIN rooms' : rooms'[r] = rooms[r]
             /\ \A r \in CleanupIds :
                  storage_get_room(storage', r, now)
                    = (storage_get_room(storage, r, now) /\ r \notin expired)
             /\ \A r \in DOMAIN load_rooms(storage', now) : storage'[r] = storage[r]]_vars

\* a cleanup has removed one room and its record; the other room, which was active
\* within its timeout, and its record are still there
C23_Witness ==
  \E t \in Threads : \E r, q \in CleanupIds :
    /\ th[t].st = "idle" /\ th[t].op = "cleanup_expired_rooms" /\ th[t].res = "1"
    /\ r # q
    /\ DOMAIN rooms = {q}
    /\ ~storage_get_room(storage, r, now)
    /\ storage_get_room(storage, q, now)
    /\ rooms[q].inactivity_timeout < DefaultTimeout
    /\ now - rooms[q].last_activity = rooms[q].inactivity_timeout

\* C25: every registry call a handler makes (create_room, get_room, join_room,
\* leave_room, cleanup_expired_rooms) returns: at no time is a call in a state from
\* which it can never return, waiting for a lock that is never released
C25_EveryCallReturns ==
  \A t \in Threads : th[t].st # "idle" => ~Stuck(t)

\* C33: no lock is held while a call of the persistence gateway is in progress: the
\* registry has never called room_storage from inside its critical section
C33_NoIOUnderLock == ~io_in_lock

Stopped == pc # "none" /\ ~running

LastRound == round_history[Len(round_history)]

\* a step that archives a round
Archives == Len(round_history') > Len(round_history)

Archived == round_history'[Len(round_history')]

\* C5: once stop() has returned, the engine sends no further tick and no further
\* result broadcast
C5_NoEmitAfterStop == [][Stopped => emitted' = emitted]_vars

\* the reveal hold: the round is finalized and the next one has not begun
RevealHold == pc \in {"emit_result", "reveal_check", "incr"}

\* C6: a choice submitted while the round is locked is rejected with "Round not
\* active" and leaves the archived rounds and the scores as they were
C6_LateChoiceRejected ==
  [][\A pid \in Clients, raw \in RawChoices :
       (RevealHold /\ rps_choice(pid, raw)) =>
         /\ ~submit_choice(choices, pid, raw).success
         /\ submit_choice(choices, pid, raw).error = "Round not active"
         /\ round_history' = round_history
         /\ scores' = scores]_vars

\* C7: in the countdown every valid submission is taken, a repeated value changes
\* nothing, and the choice a round is archived with is, for each of its two players,
\* the last valid value received from that player in the countdown
C7_LastWriteWins ==
  [][/\ \A pid \in Clients, raw \in RawChoices :
          (Countdown /\ rps_choice(pid, raw) /\ Lower(raw) \in VALID_CHOICES) =>
            /\ Get(choices', pid) = Lower(raw)
            /\ \A q \in Clients \ {pid} : Get(choices', q) = Get(choices, q)
            /\ (Get(choices, pid) = Lower(raw) => choices' = choices)
     /\ Archives => /\ Archived.c1 = last_valid[Archived.p1]
                    /\ Archived.c2 = last_valid[Archived.p2]]_vars

\* a round was archived with a value that replaced an earlier, different one
C7_Witness ==
  /\ pc = "emit_result"
  /\ overwrote
  /\ \E p \in Clients : last_valid[p] # None /\ LastRound.p1 = p /\ LastRound.c1 = last_valid[p]

\* the outcome the rules give for the choices of player 1 and player 2
C8_Outcome(c1, c2) ==
  IF c1 = None /\ c2 = None THEN "tie"
  ELSE IF c1 = None THEN "p2_win"
  ELSE IF c2 = None THEN "p1_win"
  ELSE IF c1 = c2 THEN "tie"
  ELSE IF <<c1, c2>> \in {<<"rock", "scissors">>, <<"scissors", "paper">>, <<"paper", "rock">>}
       THEN "p1_win"
  ELSE "p2_win"

\* the result names of the timer engine for those of RPSRoundState
C8_SameAs(result) ==
  CASE result = "p1_win" -> "player1" [] result = "p2_win" -> "player2" [] OTHER -> "draw"

\* C8: a round is archived for the first two players in join order with their
\* choices, its outcome is the one the rules give for that pair of choices, and
\* RPSRoundState computes the same winner from the same choices
C8_OutcomeOfPair ==
  [][Archives =>
       /\ Archived.p1 = troom.player_order[1]
       /\ Archived.p2 = troom.player_order[2]
       /\ Archived.c1 = Get(choices, Archived.p1)
       /\ Archived.c2 = Get(choices, Archived.p2)
       /\ Archived.result = C8_Outcome(Archived.c1, Archived.c2)
       /\ Archived.winner = CASE Archived.result = "p1_win" -> Archived.p1
                              [] Archived.result = "p2_win" -> Archived.p2
                              [] OTHER -> NoPlayer
       /\ compute_winner(fill_none(choices, troom.player_order), troom.player_order)
            = C8_SameAs(Archived.result)]_vars

\* rounds archived by dominance, by absence and as a tie
C8_Witness ==
  /\ Len(round_history) = 2
  /\ round_history[1].c1 = "scissors" /\ round_history[1].c2 = "paper"
  /\ round_history[1].result = "p1_win"
  /\ round_history[2].c1 = None /\ round_history[2].c2 = "rock"
  /\ round_history[2].result = "p2_win"

\* C11: an engine stopped before its first countdown had elapsed sends no result
\* broadcast, archives no round and begins no further round
C11_EarlyStopEndsQuietly ==
  early_stop => /\ \A i \in 1..Len(emitted) : emitted[i].kind # "result"
                /\ round_history = << >>
                /\ current_round = 1
                /\ pc \notin {"finalize", "emit_result", "reveal_check", "incr"}

\* the engine was stopped in the middle of its first countdown and its thread has ended
C11_Witness ==
  /\ early_stop
  /\ pc = "done"
  /\ Len(emitted) >= 2

\* the players a resolved round credits: the winner, or both on a tie
Credited(order, ch) ==
  LET w == determine_winner(order[1], order[2], Get(ch, order[1]), Get(ch, order[2]))
  IN IF w.winner # NoPlayer THEN {w.winner} ELSE {order[1], order[2]}

\* C21: when a round locks, a decisive outcome adds one to the winner's score of the
\* engine and leaves the other player's as it was, and a drawn outcome adds one to the
\* scores of both players of the round
C21_RoundScoring ==
  [][( finalize /\ Len(troom.player_order) >= 2 )
     => /\ Credited(troom.player_order, choices) \subseteq DOMAIN scores'
        /\ DOMAIN scores' = DOMAIN scores
        /\ \A p \in DOMAIN scores :
             scores'[p] = scores[p] +
               (IF p \in Credited(troom.player_order, choices) THEN 1 ELSE 0)]_vars

C24_ArchivedRoundsImmutable ==
  [][/\ Len(round_history') >= Len(round_history)
     /\ \A i \in 1..Len(round_history) : round_history'[i] = round_history[i]]_vars

\* two rounds are archived with different score snapshots, a choice came in after the
\* second one and the engine was stopped
C24_Witness ==
  /\ Len(round_history) = 2
  /\ round_history[1].scores # round_history[2].scores
  /\ round_history[2].scores = scores
  /\ choices # << >>
  /\ \E p \in DOMAIN choices : choices[p] \notin {round_history[2].c1, round_history[2].c2}
  /\ ~running
  /\ pc = "done"

\* C26: when a start request replaces a running engine, the old engine has stopped
\* emitting before the new engine emits its first tick: once the new engine has sent
\* something, the old one sends no further tick and no further result
C26_EnginesNeverInterleave ==
  [][succ.emitted # << >> => emitted' = emitted]_vars

\* the reveal delay: the result is out and the thread sleeps REVEAL_DURATION
Revealing == pc = "reveal_check"

\* C27: a stop issued during the reveal delay prevents the next round: from then on the
\* thread only ends, the round counter stays and nothing more is emitted
C27_StopInRevealEndsEngine ==
  [][( (Revealing /\ stop_flag) \/ pc = "done" )
     => /\ pc' \in {pc, "done"}
        /\ current_round' = current_round
        /\ emitted' = emitted]_vars

\* the engine was stopped after the reveal of round 1 and its thread has ended without
\* a second round
C27_Witness ==
  /\ pc = "done"
  /\ stop_flag /\ ~running
  /\ current_round = 1
  /\ Len(round_history) = 1
  /\ Len(emitted) = ROUND_DURATION + 1
  /\ emitted[Len(emitted)].kind = "result"

\* the thread has finished the last round the model follows and waits at the counter
AtRoundBound == pc = "incr" /\ current_round = MaxRounds

\* C28: after stop() on a running engine the timer thread eventually ends, from
\* whichever position it is in: countdown, locking or reveal
C28_StoppedThreadExits ==
  (Stopped /\ ~AtRoundBound) ~> (pc = "done")

\* the thread has ended after a stop that came while it was counting down
C28_Witness ==
  /\ pc = "done"
  /\ Stopped
  /\ emitted # << >>
  /\ emitted[Len(emitted)].kind = "tick"
  /\ emitted[Len(emitted)].remaining > 1

\* what may follow what in the broadcasts of one engine: a tick below ROUND_DURATION
\* follows the tick one above it of the same round, a result follows the tick for 1 of
\* its round, and the first tick of a round follows the result of the round before (or
\* its last tick, when that round had too few players to be resolved)
Follows(a, b) ==
  IF b.kind = "tick"
  THEN IF b.remaining < ROUND_DURATION
       THEN a.kind = "tick" /\ a.round = b.round /\ a.remaining = b.remaining + 1
       ELSE /\ b.remaining = ROUND_DURATION
            /\ a.round = b.round - 1
            /\ a.kind = "result" \/ (a.kind = "tick" /\ a.remaining = 1)
  ELSE a.kind = "tick" /\ a.round = b.round /\ a.remaining = 1

RevealedRounds ==
  LET results == SelectSeq(emitted, LAMBDA m : m.kind = "result")
  IN [i \in 1..Len(results) |-> results[i].round]

\* strictly increasing: no value twice
Increasing(s) == \A i, j \in 1..Len(s) : i < j => s[i] < s[j]

\* C30: every round is locked and resolved once: no round number has two records in
\* the history or two result broadcasts, a countdown starts only for a round that has
\* neither yet, and the round counter moves by exactly one, after the reveal and before
\* the next countdown
C30_RoundResolvedOnce ==
  [][/\ Increasing([i \in 1..Len(round_history) |-> round_history[i].round])
     /\ Increasing(RevealedRounds)
     /\ clear_choices
          => /\ \A i \in 1..Len(round_history) : round_history[i].round < current_round
             /\ \A i \in 1..Len(RevealedRounds) : RevealedRounds[i] < current_round
     /\ current_round' # current_round
          => current_round' = current_round + 1 /\ pc = "incr" /\ pc' = "loop"]_vars

\* two rounds are resolved: one record and one result for round 1 and for round 2
C30_Witness ==
  /\ Len(round_history) = 2
  /\ round_history[1].round = 1 /\ round_history[2].round = 2
  /\ RevealedRounds = <<1, 2>>
  /\ current_round = 2

\* C31: an engine that was started and never stopped does not end on its own: its
\* thread never leaves the loop, every countdown is followed by the lock and the reveal
\* of the round, and the reveal by the next countdown with the round counter one higher
C31_RunsUntilStopped ==
  [][( running /\ pc # "none" )
     => /\ pc' # "done"
        /\ stop_flag' = stop_flag
        /\ finalize => pc' = "emit_result"
        /\ next_round => current_round' = current_round + 1]_vars

\* the step in which the timer thread hits an internal fault: _finalize_round raises
Faults ==
  /\ finalize
  /\ finalize_round(troom.player_order, choices, scores, current_round).status = "raise"

\* C32: when the timer thread hits an internal fault, the cancellation flag is set and
\* a 'game stopped' broadcast goes to the room
C32_FaultIsAnnounced ==
  [][Faults
     => /\ stop_flag'
        /\ Len(emitted') = Len(emitted) + 1
        /\ emitted'[Len(emitted')].kind = "stopped"]_vars

\* C34: an engine is stopped before its room is discarded: once the room of the engine
\* is gone from the registry, the engine is not running
C34_DiscardedRoomHasNoEngine ==
  TimerRoomId \notin DOMAIN rooms => ~running

C37_InvalidChoiceRejected ==
  [][\A pid \in Clients, raw \in RawChoices :
       ( /\ registered
         /\ Lower(raw) \notin VALID_CHOICES
         /\ handle_rps_choice(pid, raw) )
       => /\ submit_choice(choices, pid, raw).error = "Invalid choice"
          /\ sent'.response = "fail"
          /\ sent'.broadcast = {}
          /\ choices' = choices
          /\ emitted' = emitted]_vars

\* the last request of a running engine was rejected while a choice is recorded
C37_Witness ==
  /\ registered /\ Countdown
  /\ sent.response = "fail"
  /\ \E pid \in Clients : Get(choices, pid) \in VALID_CHOICES

\* a thread that has been started and has not returned
Live(p) == p \notin {"none", "done"}

\* C38: after any sequence of start() and stop() calls on one engine at most one timer
\* thread drives its rounds: two threads are never live together while the stop event
\* is clear
C38_OneThreadPerEngine ==
  ~(Live(pc) /\ Live(second.pc) /\ ~stop_flag)

\* C39: whenever running is true the timer thread of the engine is live: the engine
\* never reports running after its thread has returned
C39_RunningHasThread ==
  running => Live(pc)

(***************************************************************************)
(* Claims about connection tracking                                        *)
(***************************************************************************)
\* the connection came back within the grace period
CameBack(sid) == sid \in DOMAIN grace /\ grace[sid].back

\* C9: a connection that came back within the grace period keeps its player, and no
\* player_left is sent for that player
C9_ReconnectKeepsPlayer ==
  \A sid \in Sids :
    CameBack(sid) => /\ sid \in DOMAIN socket_to_player
                     /\ socket_to_player[sid] = grace[sid].player
                     /\ grace[sid].player \notin player_left

\* the grace period of the dropped connection ran out with no reconnection
GraceOver(sid) == sid \in DOMAIN grace /\ ~grace[sid].back /\ grace[sid].since > GRACE

\* C10: when the grace period runs out with no reconnection, the mapping of the
\* connection is gone and player_left was sent for its player
C10_EvictionNotifies ==
  \A sid \in Sids :
    GraceOver(sid) => /\ sid \notin DOMAIN socket_to_player
                      /\ grace[sid].player \in player_left

\* C18: a join request from a connection that has a player is rejected: the mappings
\* stay as they are, no player id is created and no slot is added to the room
C18_DuplicateJoinRejected ==
  [][\A sid \in Sids :
       ( sid \in DOMAIN socket_to_player /\ handle_join_room(sid) )
       => ( /\ socket_to_player' = socket_to_player
            /\ player_sockets' = player_sockets
            /\ next_player' = next_player
            /\ croom' = croom )]_vars

(***************************************************************************)
(* Game sessions of a room                                                 *)
(***************************************************************************)
\* the result names a participant as the winner, or is a draw with no winner
Decides(results, player_scores) ==
  /\ results.given
  /\ \/ results.winner \in DOMAIN player_scores
     \/ results.winner = NoPlayer /\ results.result = "draw"

\* C19: end_game(result) on a room with an active session adds one point to the named
\* winner, or one point to every participant on a draw, records these scores as the
\* room's cumulative scores, appends the session to the history exactly once, and
\* leaves the room without an active game.
C19_EndGameArchivesAndClears ==
  [][\A results \in EndResults :
       ( /\ groom.current_game # NoGame
         /\ Decides(results, groom.games[groom.current_game].player_scores)
         /\ groom_end_game(results) )
       => LET before == groom.games[groom.current_game].player_scores
              after == [p \in DOMAIN before |->
                          IF results.winner = NoPlayer \/ results.winner = p
                          THEN before[p] + 1 ELSE before[p]]
          IN /\ groom'.cumulative_scores = after
             /\ groom'.games[groom.current_game].player_scores = after
             /\ Cardinality({i \in 1..Len(groom'.game_history) :
                               groom'.game_history[i] = groom.current_game}) = 1
             /\ groom'.current_game = NoGame]_vars

\* C20: start_game(kind, reset_scores) replaces the active session with a new one whose
\* score for every current player is 0 when reset_scores is true and the player's
\* cumulative score (0 if none) when it is false, sets every ready flag to false and
\* refreshes last_activity.
C20_StartGameSeedsScores ==
  [][\A game_type \in GameTypes, reset_scores \in BOOLEAN :
       groom_start_game(game_type, reset_scores)
       => LET game == groom'.games[groom'.current_game]
              old == groom.cumulative_scores
          IN /\ groom'.current_game = Len(groom.games) + 1
             /\ groom'.current_game # groom.current_game
             /\ game.game_type = game_type
             /\ game.results = NoResults
             /\ DOMAIN game.player_scores = DOMAIN groom.players
             /\ \A p \in DOMAIN groom.players :
                  game.player_scores[p] =
                    IF reset_scores THEN 0
                    ELSE IF p \in DOMAIN old THEN old[p] ELSE 0
             /\ DOMAIN groom'.players = DOMAIN groom.players
             /\ \A p \in DOMAIN groom'.players : ~ groom'.players[p].is_ready
             /\ groom'.last_activity = now]_vars

\* a rematch has just started with a score inherited from the game before, after the clock moved
C20_Witness ==
  /\ Len(groom.games) = 2
  /\ groom.current_game = 2
  /\ groom.games[2].results = NoResults
  /\ \E p \in DOMAIN groom.games[2].player_scores : groom.games[2].player_scores[p] > 0
  /\ groom.last_activity > 0

\* C35: a broadcast to the members of the room is emitted only when the requested
\* operation succeeded: a request answered with a failure broadcasts nothing
C35_BroadcastOnlyOnSuccess ==
  sent.broadcast # {} => sent.response = "ok"

=============================================================================
